---- MODULE Spec2Model ----
(***************************************************************************)
(* Model of runpod_handler.py: the HTTP facade (/files, /download,         *)
(* /inference) and the batch entry point (handler) over a file system.     *)
(* Strings are sequences of one-character strings, paths are sequences of  *)
(* names, so that join, suffix and prefix tests are computed, not assumed. *)
(***************************************************************************)
EXTENDS Integers, Sequences, FiniteSets, TLC

VARIABLES fs, dirs, tz, pc, kind, arg, temp_dir, out, exit, wrote, launches, res,
          dl, ls

vars == <<fs, dirs, tz, pc, kind, arg, temp_dir, out, exit, wrote, launches, res,
          dl, ls>>

\* ---------------------------------------------------------------- bounds
MaxCalls == 2
MaxListed == 2

Calls == 1..MaxCalls

\* ------------------------------------------------------- strings and paths
NoPath == <<"<none>">>

SLASH == "/"
DOT == "."
MP4 == <<".", "m", "p", "4">>

\* str.endswith
EndsWith(s, suf) ==
    /\ Len(s) >= Len(suf)
    /\ SubSeq(s, Len(s) - Len(suf) + 1, Len(s)) = suf

\* str.split('/')
RECURSIVE SplitFrom(_, _, _)
SplitFrom(s, i, cur) ==
    IF i > Len(s) THEN <<cur>>
    ELSE IF s[i] = SLASH THEN <<cur>> \o SplitFrom(s, i + 1, <<>>)
    ELSE SplitFrom(s, i + 1, Append(cur, s[i]))

Split(s) == SplitFrom(s, 1, <<>>)

\* str.rfind('.'), 0 when there is none (positions are 1-based here)
RECURSIVE RFindDot(_, _)
RFindDot(s, i) ==
    IF i = 0 THEN 0
    ELSE IF s[i] = DOT THEN i
    ELSE RFindDot(s, i - 1)

\* str.lower on the letters the inputs use
LowerChar(c) ==
    CASE c = "P" -> "p"
      [] c = "N" -> "n"
      [] c = "G" -> "g"
      [] OTHER -> c

Lower(s) == [i \in 1..Len(s) |-> LowerChar(s[i])]

\* pathlib: the final path component, trailing separators dropped
RECURSIVE LastNonEmpty(_, _)
LastNonEmpty(parts, i) ==
    IF i = 0 THEN <<>>
    ELSE IF parts[i] # <<>> /\ parts[i] # <<DOT>> THEN parts[i]
    ELSE LastNonEmpty(parts, i - 1)

PathName(s) == LET parts == Split(s) IN LastNonEmpty(parts, Len(parts))

\* pathlib: PurePath.suffix
PathSuffix(s) ==
    LET name == PathName(s)
        i == RFindDot(name, Len(name))
    IN IF 1 < i /\ i < Len(name) THEN SubSeq(name, i, Len(name)) ELSE <<>>

\* the directories of the deployment
OUTPUT_DIR == <<"/", "w", "/", "o">>
TMP_ROOT == <<"/", "t">>

\* os.path.join(a, b)
PathJoin(a, b) ==
    IF Len(b) > 0 /\ b[1] = SLASH THEN b
    ELSE IF Len(a) > 0 /\ a[Len(a)] = SLASH THEN a \o b
    ELSE a \o <<SLASH>> \o b

\* Path resolution as the kernel does it: a walk over the components, where
\* every component that is walked through has to be an existing directory.
\* The result is a sequence of names, or NoPath (ENOENT / ENOTDIR).
Parent(p) == IF Len(p) = 0 THEN p ELSE SubSeq(p, 1, Len(p) - 1)

RECURSIVE Walk(_, _, _, _)
Walk(d, cur, parts, i) ==
    IF i > Len(parts) THEN cur
    ELSE IF ~(cur \in d) THEN NoPath
    ELSE IF parts[i] = <<>> \/ parts[i] = <<DOT>> THEN Walk(d, cur, parts, i + 1)
    ELSE IF parts[i] = <<DOT, DOT>> THEN Walk(d, Parent(cur), parts, i + 1)
    ELSE Walk(d, Append(cur, parts[i]), parts, i + 1)

\* relative paths do not occur: every path the program opens is absolute
Resolve(d, s) == Walk(d, <<>>, Split(s), 1)

OutRoot == Resolve({<<>>, <<<<"w">>>>}, OUTPUT_DIR)
TmpRoot == Resolve({<<>>}, TMP_ROOT)

\* os.path.exists
PathExists(f, d, s) ==
    LET p == Resolve(d, s) IN p # NoPath /\ (p \in DOMAIN f \/ p \in d)

IsPrefix(a, b) == Len(a) <= Len(b) /\ SubSeq(b, 1, Len(a)) = a

\* the resolved path p is a file or directory below the root directory
Inside(root, p) == p # NoPath /\ Len(p) > Len(root) /\ IsPrefix(root, p)

\* ------------------------------------------------------------ file system
\* fs maps the resolved path of every regular file to its inode data, dirs
\* is the set of existing directories.
RootDirs == {<<>>, <<<<"w">>>>, OutRoot, TmpRoot}

File(t, d) == [ctime |-> t, data |-> d]

Name(s) == s \o MP4

\* uuid.uuid4().hex and the random part of tempfile.mkdtemp: a name that no
\* other draw returns, the k-th draw of call c being number 4 * (c - 1) + k
HexDigits == <<"1", "2", "3", "4", "5", "6", "7", "8", "9", "a", "b", "c", "d", "e", "f">>
Hex(n) == <<HexDigits[(n \div 15) + 1], HexDigits[(n % 15) + 1]>>

uuid4(c, k) == Hex(4 * (c - 1) + k)

\* ------------------------------------------------------- GET /download
NoDownload == [called |-> FALSE, filename |-> <<>>, status |-> 0, path |-> NoPath]

\* candidate files of the download scenarios: two in the Output Store, two
\* elsewhere on the machine
StoreVideo == Append(OutRoot, Name(<<"x">>))
StoreText == Append(OutRoot, <<"r", ".", "t", "x", "t">>)
OtherVideo == <<<<"w">>, Name(<<"s">>)>>
OtherText == <<<<"w">>, <<"k", ".", "t", "x", "t">>>>
CandidateFiles == {StoreVideo, StoreText, OtherVideo, OtherText}

DownloadNames ==
    { Name(<<"x">>), Name(<<"m">>),
      <<"r", ".", "t", "x", "t">>, <<"n", ".", "t", "x", "t">>,
      <<".", ".", "/">> \o Name(<<"s">>),
      <<"/", "w", "/">> \o Name(<<"s">>),
      <<".", ".", "/", "k", ".", "t", "x", "t">>,
      <<".", ".", "/", "o", "/">> \o Name(<<"x">>),
      <<".", ".", "/">> \o Name(<<"q">>),
      <<".", ".">>,
      Name(<<"x">>) \o <<"/">> }

download_file_suffix_first(filename) ==
    LET file_path == PathJoin(OUTPUT_DIR, filename) IN
    /\ dl' = IF ~EndsWith(filename, MP4)
             THEN [called |-> TRUE, filename |-> filename, status |-> 400, path |-> NoPath]
             ELSE IF ~PathExists(fs, dirs, file_path)
             THEN [called |-> TRUE, filename |-> filename, status |-> 404, path |-> NoPath]
             ELSE [called |-> TRUE, filename |-> filename, status |-> 200,
                   path |-> Resolve(dirs, file_path)]
    /\ UNCHANGED <<fs, dirs, tz, pc, kind, arg, temp_dir, out, exit, wrote, launches, res, ls>>

download_file(filename) ==
    LET file_path == PathJoin(OUTPUT_DIR, filename) IN
    /\ dl' = IF ~PathExists(fs, dirs, file_path)
             THEN [called |-> TRUE, filename |-> filename, status |-> 404, path |-> NoPath]
             ELSE IF ~EndsWith(filename, MP4)
             THEN [called |-> TRUE, filename |-> filename, status |-> 400, path |-> NoPath]
             ELSE [called |-> TRUE, filename |-> filename, status |-> 200,
                   path |-> Resolve(dirs, file_path)]
    /\ UNCHANGED <<fs, dirs, tz, pc, kind, arg, temp_dir, out, exit, wrote, launches, res, ls>>

\* --------------------------------------------------------- per-call state
NoCall == [c \in Calls |-> "idle"]

IdleCalls ==
    /\ pc = NoCall
    /\ kind = [c \in Calls |-> "none"]
    /\ arg = [c \in Calls |-> <<>>]
    /\ temp_dir = [c \in Calls |-> NoPath]
    /\ out = [c \in Calls |-> NoPath]
    /\ exit = [c \in Calls |-> -1]
    /\ wrote = [c \in Calls |-> FALSE]
    /\ launches = [c \in Calls |-> 0]
    /\ res = [c \in Calls |-> [kind |-> "none"]]

InitDl ==
    /\ \E S \in SUBSET CandidateFiles : fs = [p \in S |-> File(0, 0)]
    /\ dirs = RootDirs
    /\ tz = "UTC"
    /\ IdleCalls
    /\ dl = NoDownload
    /\ ls = [called |-> FALSE, files |-> <<>>]

NextDl == \E filename \in DownloadNames : download_file(filename)

SpecDl == InitDl /\ [][NextDl]_vars

\* C2 as stated: 400 for every name without the .mp4 suffix whether or not the
\* file exists, and 404 only for names with the suffix that do not exist.
C2_Original ==
    dl.called =>
        /\ (~EndsWith(dl.filename, MP4) => dl.status = 400)
        /\ (dl.status = 404 =>
                EndsWith(dl.filename, MP4)
                /\ ~PathExists(fs, dirs, PathJoin(OUTPUT_DIR, dl.filename)))

\* C2 amended: 404 exactly for the names whose joined path does not exist,
\* whatever their suffix; 400 exactly for the names whose path exists and that
\* do not end in .mp4.
C2_ExistenceFirst ==
    dl.called =>
        LET there == PathExists(fs, dirs, PathJoin(OUTPUT_DIR, dl.filename)) IN
        /\ (dl.status = 404 <=> ~there)
        /\ (dl.status = 400 <=> there /\ ~EndsWith(dl.filename, MP4))
        /\ dl.status \in {200, 400, 404}

\* a missing name without the suffix was asked for, and one that exists
C2_Witness ==
    /\ dl.called
    /\ ~EndsWith(dl.filename, MP4)
    /\ dl.status = 404
    /\ StoreText \in DOMAIN fs

\* C3: a file is served only if the name ends in .mp4 and the opened path
\* exists and lies inside the Output Store directory.
C3_ServedInsideStore ==
    dl.status = 200 =>
        /\ EndsWith(dl.filename, MP4)
        /\ dl.path \in DOMAIN fs
        /\ Inside(OutRoot, dl.path)

\* ------------------------------------------------------------ GET /files
\* st_ctime is counted in half seconds from local midnight of the model's
\* day; the day is the one on which the zone "DST" sets its clocks back from
\* 02:00 to 01:00, the zone "UTC" has no such step.
HalfSecondsPerHour == 2 * 3600

\* time.localtime: seconds to add to the timestamp to get the wall clock
UtcOffset(zone, t) ==
    IF zone = "DST" /\ t >= 2 * HalfSecondsPerHour THEN 0 - 3600 ELSE 0

\* datetime.fromtimestamp(t): the naive local date and time
fromtimestamp(zone, t) ==
    LET secs == (t \div 2) + UtcOffset(zone, t) IN
    [hour |-> secs \div 3600, minute |-> (secs % 3600) \div 60,
     second |-> secs % 60, microsecond |-> (t % 2) * 500000]

Digits == <<"0", "1", "2", "3", "4", "5", "6", "7", "8", "9">>
Digit(n) == Digits[n + 1]

RECURSIVE ZeroPad(_, _)
ZeroPad(n, width) ==
    IF width = 0 THEN <<>> ELSE Append(ZeroPad(n \div 10, width - 1), Digit(n % 10))

\* datetime.isoformat(): the fraction is left out when it is zero
isoformat(d) ==
    <<"2", "0", "2", "6", "-", "1", "1", "-", "0", "1", "T">>
    \o ZeroPad(d.hour, 2) \o <<":">> \o ZeroPad(d.minute, 2) \o <<":">>
    \o ZeroPad(d.second, 2)
    \o (IF d.microsecond = 0 THEN <<>> ELSE <<".">> \o ZeroPad(d.microsecond, 6))

\* ord() of the characters of an ISO string
Ord(c) ==
    CASE c = "-" -> 45
      [] c = "." -> 46
      [] c = ":" -> 58
      [] c = "T" -> 84
      [] OTHER -> 48 + (CHOOSE n \in 0..9 : Digit(n) = c)

\* a < b on str
RECURSIVE StrLessFrom(_, _, _)
StrLessFrom(a, b, i) ==
    IF i > Len(a) THEN i <= Len(b)
    ELSE IF i > Len(b) THEN FALSE
    ELSE IF a[i] # b[i] THEN Ord(a[i]) < Ord(b[i])
    ELSE StrLessFrom(a, b, i + 1)

StrLess(a, b) == StrLessFrom(a, b, 1)

\* the sort key of list_files: x["created"]
ByCreated(a, b) == StrLess(a.created, b.created)

\* list.sort(key=..., reverse=True): stable, so an entry goes behind every
\* entry whose key is not smaller than its own
RECURSIVE InsertDesc(_, _)
InsertDesc(sorted, x) ==
    IF sorted = <<>> THEN <<x>>
    ELSE IF ByCreated(sorted[1], x) THEN <<x>> \o sorted
    ELSE <<sorted[1]>> \o InsertDesc(Tail(sorted), x)

RECURSIVE SortDesc(_)
SortDesc(files) ==
    IF files = <<>> THEN <<>>
    ELSE InsertDesc(SortDesc(SubSeq(files, 1, Len(files) - 1)), files[Len(files)])

\* glob.glob(OUTPUT_DIR/*.mp4): the files directly in the directory whose
\* name ends in .mp4 and does not start with a dot
Glob(f, d) ==
    { p \in DOMAIN f :
        /\ Len(p) = Len(OutRoot) + 1
        /\ IsPrefix(OutRoot, p)
        /\ EndsWith(p[Len(p)], MP4)
        /\ p[Len(p)][1] # DOT }

Orders(S) ==
    { o \in [1..Cardinality(S) -> S] : \A i, j \in DOMAIN o : o[i] = o[j] => i = j }

Entry(zone, f, p) ==
    [filename |-> p[Len(p)],
     created |-> isoformat(fromtimestamp(zone, f[p].ctime)),
     download_url |-> <<"/", "d", "/">> \o p[Len(p)]]

list_files ==
    /\ IF ~PathExists(fs, dirs, OUTPUT_DIR)
       THEN ls' = [called |-> TRUE, files |-> <<>>]
       ELSE \E order \in Orders(Glob(fs, dirs)) :
                ls' = [called |-> TRUE,
                       files |-> SortDesc([i \in DOMAIN order |-> Entry(tz, fs, order[i])])]
    /\ UNCHANGED <<fs, dirs, tz, pc, kind, arg, temp_dir, out, exit, wrote, launches, res, dl>>

\* creation times of the listing scenarios: midnight and half a second
\* later, 01:30 and half a second later, and two instants after the step
Times ==
    {0, 1, 3 * 3600, 3 * 3600 + 1, 4 * 3600 + 1200, 6 * 3600}

ListedNames == {Append(OutRoot, Name(uuid4(i, 3))) : i \in 1..MaxListed}

InitLs ==
    /\ \E S \in SUBSET (ListedNames \cup {StoreText}) :
       \E t \in [S -> Times] : fs = [p \in S |-> File(t[p], 0)]
    /\ dirs \in {RootDirs, RootDirs \ {OutRoot}}
    /\ dirs = RootDirs \/ fs = <<>>
    /\ tz \in {"UTC", "DST"}
    /\ IdleCalls
    /\ dl = NoDownload
    /\ ls = [called |-> FALSE, files |-> <<>>]

NextLs == list_files

SpecLs == InitLs /\ [][NextLs]_vars

Ctime(e) == fs[Append(OutRoot, e.filename)].ctime

\* C7: of two listed files the one created later comes first.
C7_NewestFirst ==
    ls.called =>
        \A i, j \in DOMAIN ls.files :
            Ctime(ls.files[i]) > Ctime(ls.files[j]) => i < j

\* ------------------------------------------------------- file validation
ALLOWED_IMAGE_EXTENSIONS ==
    { <<".", "p", "n", "g">>, <<".", "j", "p", "g">>, <<".", "j", "p", "e", "g">>,
      <<".", "b", "m", "p">>, <<".", "t", "i", "f", "f">>, <<".", "w", "e", "b", "p">> }

ALLOWED_AUDIO_EXTENSIONS ==
    { <<".", "w", "a", "v">>, <<".", "m", "p", "3">>, <<".", "m", "4", "a">>,
      <<".", "f", "l", "a", "c">>, <<".", "o", "g", "g">> }

validate_file_type(filename, allowed_extensions) ==
    Lower(PathSuffix(filename)) \in allowed_extensions

\* upload names of the scenarios
ImageNames ==
    { <<"a", ".", "P", "N", "G">>, <<"a", ".", "g", "i", "f">>,
      <<"d", "/", "a", ".", "p", "n", "g">>, <<".", "p", "n", "g">> }

AudioNames ==
    { <<"b", ".", "w", "a", "v">>, <<"b", ".", "g", "i", "f">>,
      <<"d", "/", "b", ".", "o", "g", "g">> }

\* ----------------------------------------------------- temporary workspace
\* tempfile.mkdtemp(): a new directory with a name no other directory has
mkdtemp(c) == TMP_ROOT \o <<"/", "t">> \o uuid4(c, 0)

\* shutil.rmtree(root): the directory and everything below it
RmTreeFiles(f, root) ==
    [p \in {q \in DOMAIN f : ~IsPrefix(root, q)} |-> f[p]]

RmTreeDirs(d, root) == {q \in d : ~IsPrefix(root, q)}

\* if os.path.exists(temp_dir): shutil.rmtree(temp_dir)
CleanupFiles(f, d, dir) ==
    IF PathExists(f, d, dir) THEN RmTreeFiles(f, Resolve(d, dir)) ELSE f

CleanupDirs(f, d, dir) ==
    IF PathExists(f, d, dir) THEN RmTreeDirs(d, Resolve(d, dir)) ELSE d

\* open(path, "wb") succeeds when the directory of the path exists
CanCreate(d, path) ==
    LET p == Resolve(d, path) IN p # NoPath /\ Len(p) > 0 /\ Parent(p) \in d

Unused == <<tz, dl, ls>>

\* ------------------------------------------------------- POST /inference
Http(status, detail) == [kind |-> "http", status |-> status, detail |-> detail]

\* inference with the workspace made before the names are validated
inference_begin_mkdtemp_first(c, image, audio) ==
    /\ pc[c] = "idle"
    /\ kind' = [kind EXCEPT ![c] = "http"]
    /\ dirs' = dirs \cup {Resolve(dirs, mkdtemp(c))}
    /\ temp_dir' = [temp_dir EXCEPT ![c] = mkdtemp(c)]
    /\ arg' = [arg EXCEPT ![c] =
           [image |-> image, audio |-> audio,
            img_path |-> PathJoin(mkdtemp(c), uuid4(c, 1) \o <<"_">> \o image),
            audio_path |-> PathJoin(mkdtemp(c), uuid4(c, 2) \o <<"_">> \o audio)]]
    /\ IF ~validate_file_type(image, ALLOWED_IMAGE_EXTENSIONS)
          \/ ~validate_file_type(audio, ALLOWED_AUDIO_EXTENSIONS)
       THEN /\ res' = [res EXCEPT ![c] = Http(400, "Invalid format")]
            /\ pc' = [pc EXCEPT ![c] = "done"]
       ELSE /\ pc' = [pc EXCEPT ![c] = "save_image"]
            /\ UNCHANGED res
    /\ UNCHANGED <<fs, out, exit, wrote, launches, Unused>>

\* lines 115-130: both validations, then mkdtemp and the two upload paths
inference_begin(c, image, audio) ==
    /\ pc[c] = "idle"
    /\ kind' = [kind EXCEPT ![c] = "http"]
    /\ IF ~validate_file_type(image, ALLOWED_IMAGE_EXTENSIONS)
       THEN /\ res' = [res EXCEPT ![c] = Http(400, "Invalid image format")]
            /\ pc' = [pc EXCEPT ![c] = "done"]
            /\ arg' = [arg EXCEPT ![c] = [image |-> image, audio |-> audio,
                                          img_path |-> <<>>, audio_path |-> <<>>]]
            /\ UNCHANGED <<dirs, temp_dir>>
       ELSE IF ~validate_file_type(audio, ALLOWED_AUDIO_EXTENSIONS)
       THEN /\ res' = [res EXCEPT ![c] = Http(400, "Invalid audio format")]
            /\ pc' = [pc EXCEPT ![c] = "done"]
            /\ arg' = [arg EXCEPT ![c] = [image |-> image, audio |-> audio,
                                          img_path |-> <<>>, audio_path |-> <<>>]]
            /\ UNCHANGED <<dirs, temp_dir>>
       ELSE LET dir == mkdtemp(c) IN
            /\ dirs' = dirs \cup {Resolve(dirs, dir)}
            /\ temp_dir' = [temp_dir EXCEPT ![c] = dir]
            /\ arg' = [arg EXCEPT ![c] =
                   [image |-> image, audio |-> audio,
                    img_path |-> PathJoin(dir, uuid4(c, 1) \o <<"_">> \o image),
                    audio_path |-> PathJoin(dir, uuid4(c, 2) \o <<"_">> \o audio)]]
            /\ pc' = [pc EXCEPT ![c] = "save_image"]
            /\ UNCHANGED res
    /\ UNCHANGED <<fs, out, exit, wrote, launches, Unused>>

Raised(type, status) == [kind |-> "exception", type |-> type, status |-> status]

\* lines 134-137: one upload is written into the workspace; the open fails
\* when the directory of the path is missing, the write may fail after it
SaveUpload(c, path, next) ==
    IF ~CanCreate(dirs, path)
    THEN /\ res' = [res EXCEPT ![c] = Raised("FileNotFoundError", 0)]
         /\ pc' = [pc EXCEPT ![c] = "raised"]
         /\ UNCHANGED fs
    ELSE /\ fs' = (Resolve(dirs, path) :> File(0, c)) @@ fs
         /\ \/ /\ pc' = [pc EXCEPT ![c] = next]
               /\ UNCHANGED res
            \/ /\ res' = [res EXCEPT ![c] = Raised("OSError", 0)]
               /\ pc' = [pc EXCEPT ![c] = "raised"]

save_image(c) ==
    /\ pc[c] = "save_image"
    /\ SaveUpload(c, arg[c].img_path, "save_audio")
    /\ UNCHANGED <<dirs, kind, arg, temp_dir, out, exit, wrote, launches, Unused>>

save_audio(c) ==
    /\ pc[c] = "save_audio"
    /\ SaveUpload(c, arg[c].audio_path, "run")
    /\ UNCHANGED <<dirs, kind, arg, temp_dir, out, exit, wrote, launches, Unused>>

\* ------------------------------------------------------------ run_inference
\* run_inference with one output name for every call
run_inference_launch_fixed_name(c) ==
    /\ pc[c] = "run"
    /\ out' = [out EXCEPT ![c] = PathJoin(OUTPUT_DIR, Name(<<"o", "u", "t">>))]
    /\ launches' = [launches EXCEPT ![c] = @ + 1]
    /\ \/ /\ pc' = [pc EXCEPT ![c] = "child"]
          /\ UNCHANGED res
       \/ /\ res' = [res EXCEPT ![c] = Raised("OSError", 0)]
          /\ pc' = [pc EXCEPT ![c] = "raised"]
    /\ UNCHANGED <<fs, dirs, kind, arg, temp_dir, exit, wrote, Unused>>

\* lines 91-102: a fresh output path, then the one launch of the command;
\* a command that cannot be started raises an OSError
run_inference_launch(c) ==
    /\ pc[c] = "run"
    /\ out' = [out EXCEPT ![c] = PathJoin(OUTPUT_DIR, Name(uuid4(c, 3)))]
    /\ launches' = [launches EXCEPT ![c] = @ + 1]
    /\ \/ /\ pc' = [pc EXCEPT ![c] = "child"]
          /\ UNCHANGED res
       \/ /\ res' = [res EXCEPT ![c] = Raised("OSError", 0)]
          /\ pc' = [pc EXCEPT ![c] = "raised"]
    /\ UNCHANGED <<fs, dirs, kind, arg, temp_dir, exit, wrote, Unused>>

\* subprocess.run without check=True: the exit status is ignored
run_inference_exit_unchecked(c, code, written) ==
    /\ pc[c] = "child"
    /\ exit' = [exit EXCEPT ![c] = code]
    /\ wrote' = [wrote EXCEPT ![c] = written]
    /\ fs' = IF written THEN (Resolve(dirs, out[c]) :> File(0, c)) @@ fs ELSE fs
    /\ pc' = [pc EXCEPT ![c] = "returned"]
    /\ UNCHANGED <<res, dirs, kind, arg, temp_dir, out, launches, Unused>>

\* lines 102-105: the command ends, having written its output file or not
\* (wrote keeps which it was);
\* status zero returns the path, any other status raises HTTPException(500)
run_inference_exit(c, code, written) ==
    /\ pc[c] = "child"
    /\ exit' = [exit EXCEPT ![c] = code]
    /\ wrote' = [wrote EXCEPT ![c] = written]
    /\ fs' = IF written THEN (Resolve(dirs, out[c]) :> File(0, c)) @@ fs ELSE fs
    /\ IF code = 0
       THEN /\ pc' = [pc EXCEPT ![c] = "returned"]
            /\ UNCHANGED res
       ELSE /\ res' = [res EXCEPT ![c] = Raised("HTTPException", 500)]
            /\ pc' = [pc EXCEPT ![c] = "raised"]
    /\ UNCHANGED <<dirs, kind, arg, temp_dir, out, launches, Unused>>

\* inference without the finally block
inference_return_no_finally(c) ==
    /\ pc[c] = "returned"
    /\ kind[c] = "http"
    /\ res' = [res EXCEPT ![c] =
                  [kind |-> "FileResponse", status |-> 200, path |-> Resolve(dirs, out[c])]]
    /\ pc' = [pc EXCEPT ![c] = "done"]
    /\ UNCHANGED <<fs, dirs, kind, arg, temp_dir, out, exit, wrote, launches, Unused>>

\* lines 143-147 and 155-158: the response for the returned path, then the
\* finally block
inference_return(c) ==
    /\ pc[c] = "returned"
    /\ kind[c] = "http"
    /\ res' = [res EXCEPT ![c] =
                  [kind |-> "FileResponse", status |-> 200, path |-> Resolve(dirs, out[c])]]
    /\ fs' = CleanupFiles(fs, dirs, temp_dir[c])
    /\ dirs' = CleanupDirs(fs, dirs, temp_dir[c])
    /\ pc' = [pc EXCEPT ![c] = "done"]
    /\ UNCHANGED <<kind, arg, temp_dir, out, exit, wrote, launches, Unused>>

\* lines 149-158: the except block (cleanup, HTTPException(500)), then the
\* finally block, which finds the directory gone
inference_except(c) ==
    /\ pc[c] = "raised"
    /\ kind[c] = "http"
    /\ LET fs1 == CleanupFiles(fs, dirs, temp_dir[c])
           dirs1 == CleanupDirs(fs, dirs, temp_dir[c])
       IN /\ fs' = CleanupFiles(fs1, dirs1, temp_dir[c])
          /\ dirs' = CleanupDirs(fs1, dirs1, temp_dir[c])
    /\ res' = [res EXCEPT ![c] = Http(500, "Processing failed")]
    /\ pc' = [pc EXCEPT ![c] = "done"]
    /\ UNCHANGED <<kind, arg, temp_dir, out, exit, wrote, launches, Unused>>

\* ------------------------------------------------------------------ handler
Absent == [present |-> FALSE, value |-> <<>>]
Given(v) == [present |-> TRUE, value |-> v]

\* dict.get(key) followed by "not value": None and "" are both falsy
Falsy(field) == ~field.present \/ field.value = <<>>

Fields == {Absent, Given(<<>>), Given(<<"/", "i">>)}

\* events without an "input" key, with input None, and with an input mapping
Events ==
    {[input |-> i, source_path |-> Absent, audio_path |-> Absent] : i \in {"absent", "none"}}
    \cup [input : {"mapping"}, source_path : Fields, audio_path : Fields]

MissingMessage == "Missing source_path or audio_path in input"

Result(k, v) == [kind |-> k, value |-> v]

\* handler without the test for missing fields
handler_begin_no_test(c, event) ==
    /\ pc[c] = "idle"
    /\ kind' = [kind EXCEPT ![c] = "batch"]
    /\ arg' = [arg EXCEPT ![c] = event]
    /\ IF event.input = "absent"
       THEN /\ res' = [res EXCEPT ![c] = Result("error", "KeyError")]
            /\ pc' = [pc EXCEPT ![c] = "done"]
       ELSE IF event.input = "none"
       THEN /\ res' = [res EXCEPT ![c] = Result("error", "AttributeError")]
            /\ pc' = [pc EXCEPT ![c] = "done"]
       ELSE /\ pc' = [pc EXCEPT ![c] = "run"]
            /\ UNCHANGED res
    /\ UNCHANGED <<fs, dirs, temp_dir, out, exit, wrote, launches, Unused>>

\* lines 170-175: event["input"] raises KeyError when the key is absent and
\* .get raises AttributeError when the value is None, both caught at 180
handler_begin(c, event) ==
    /\ pc[c] = "idle"
    /\ kind' = [kind EXCEPT ![c] = "batch"]
    /\ arg' = [arg EXCEPT ![c] = event]
    /\ IF event.input = "absent"
       THEN /\ res' = [res EXCEPT ![c] = Result("error", "KeyError")]
            /\ pc' = [pc EXCEPT ![c] = "done"]
       ELSE IF event.input = "none"
       THEN /\ res' = [res EXCEPT ![c] = Result("error", "AttributeError")]
            /\ pc' = [pc EXCEPT ![c] = "done"]
       ELSE IF Falsy(event.source_path) \/ Falsy(event.audio_path)
       THEN /\ res' = [res EXCEPT ![c] = Result("error", MissingMessage)]
            /\ pc' = [pc EXCEPT ![c] = "done"]
       ELSE /\ pc' = [pc EXCEPT ![c] = "run"]
            /\ UNCHANGED res
    /\ UNCHANGED <<fs, dirs, temp_dir, out, exit, wrote, launches, Unused>>

\* line 178
handler_return(c) ==
    /\ pc[c] = "returned"
    /\ kind[c] = "batch"
    /\ res' = [res EXCEPT ![c] = Result("output_path", out[c])]
    /\ pc' = [pc EXCEPT ![c] = "done"]
    /\ UNCHANGED <<fs, dirs, kind, arg, temp_dir, out, exit, wrote, launches, Unused>>

\* handler catching HTTPException only: every other exception leaves it
handler_except_http_only(c) ==
    /\ pc[c] = "raised"
    /\ kind[c] = "batch"
    /\ res' = [res EXCEPT ![c] =
                  IF res[c].type = "HTTPException" THEN Result("error", res[c].type)
                  ELSE Result("raise", res[c].type)]
    /\ pc' = [pc EXCEPT ![c] = "done"]
    /\ UNCHANGED <<fs, dirs, kind, arg, temp_dir, out, exit, wrote, launches, Unused>>

\* lines 180-181
handler_except(c) ==
    /\ pc[c] = "raised"
    /\ kind[c] = "batch"
    /\ res' = [res EXCEPT ![c] = Result("error", res[c].type)]
    /\ pc' = [pc EXCEPT ![c] = "done"]
    /\ UNCHANGED <<fs, dirs, kind, arg, temp_dir, out, exit, wrote, launches, Unused>>

InitInf ==
    /\ fs = (StoreVideo :> File(0, 0))
    /\ dirs = RootDirs
    /\ tz = "UTC"
    /\ IdleCalls
    /\ dl = NoDownload
    /\ ls = [called |-> FALSE, files |-> <<>>]

NextInf ==
    \E c \in Calls :
        \/ \E image \in ImageNames, audio \in AudioNames : inference_begin(c, image, audio)
        \/ save_image(c)
        \/ save_audio(c)
        \/ run_inference_launch(c)
        \/ \E code \in {0, 1}, written \in BOOLEAN : run_inference_exit(c, code, written)
        \/ inference_return(c)
        \/ inference_except(c)
        \/ \E event \in Events : handler_begin(c, event)
        \/ handler_return(c)
        \/ handler_except(c)

SpecInf == InitInf /\ [][NextInf]_vars

\* ------------------------------------------------------------------ claims
Started(c) == pc[c] # "idle"

WrittenBy(c) == {p \in DOMAIN fs : fs[p].data = c}

Workspace(c) ==
    IF temp_dir[c] = NoPath THEN [exists |-> FALSE, files |-> <<>>]
    ELSE LET root == Resolve(dirs, temp_dir[c]) IN
         [exists |-> PathExists(fs, dirs, temp_dir[c]),
          files |-> [p \in {q \in DOMAIN fs : IsPrefix(root, q)} |-> fs[p]]]

\* C1: once an /inference call that made a workspace has ended, on any exit
\* path, the workspace directory and everything in it are gone.
C1_WorkspaceRemoved ==
    \A c \in Calls :
        (kind[c] = "http" /\ pc[c] = "done" /\ temp_dir[c] # NoPath)
            => Workspace(c) = [exists |-> FALSE, files |-> <<>>]

\* one call ended with the video, another ended on a failed upload write
C1_Witness ==
    \E c, d \in Calls :
        /\ kind[c] = "http" /\ pc[c] = "done" /\ res[c].status = 200
        /\ temp_dir[c] # NoPath
        /\ kind[d] = "http" /\ pc[d] = "done" /\ res[d].status = 500
        /\ temp_dir[d] # NoPath /\ launches[d] = 0

InvalidUpload(c) ==
    \/ ~validate_file_type(arg[c].image, ALLOWED_IMAGE_EXTENSIONS)
    \/ ~validate_file_type(arg[c].audio, ALLOWED_AUDIO_EXTENSIONS)

\* C4: an /inference call with an invalid image or audio name ends at once
\* with 400, with no workspace, no file written and no launch.
C4_InvalidUploadRejected ==
    \A c \in Calls :
        (kind[c] = "http" /\ Started(c) /\ InvalidUpload(c)) =>
            /\ pc[c] = "done"
            /\ res[c].status = 400
            /\ temp_dir[c] = NoPath
            /\ launches[c] = 0
            /\ out[c] = NoPath
            /\ WrittenBy(c) = {}

\* a call with a valid image name and an invalid audio name was answered
C4_Witness ==
    \E c \in Calls :
        /\ kind[c] = "http" /\ pc[c] = "done"
        /\ validate_file_type(arg[c].image, ALLOWED_IMAGE_EXTENSIONS)
        /\ ~validate_file_type(arg[c].audio, ALLOWED_AUDIO_EXTENSIONS)
        /\ res[c].status = 400

\* C5: handler ends with an output_path result or an error result, never with
\* an exception, and with output_path only after run_inference returned.
C5_HandlerNeverRaises ==
    \A c \in Calls :
        (kind[c] = "batch" /\ pc[c] = "done") =>
            /\ res[c].kind \in {"output_path", "error"}
            /\ res[c].kind = "output_path" =>
                   (exit[c] = 0 /\ launches[c] = 1 /\ res[c].value = out[c])

\* one handler call ended on a command that could not be started, another on
\* an event without the input key
C5_Witness ==
    \E c, d \in Calls :
        /\ kind[c] = "batch" /\ pc[c] = "done" /\ res[c] = Result("error", "OSError")
        /\ kind[d] = "batch" /\ pc[d] = "done" /\ res[d] = Result("error", "KeyError")

MissingField(c) == Falsy(arg[c].source_path) \/ Falsy(arg[c].audio_path)

\* C6: with source_path or audio_path missing or empty, handler returns the
\* fixed error, launches nothing and adds no file.
C6_MissingFields ==
    \A c \in Calls :
        (kind[c] = "batch" /\ arg[c].input = "mapping" /\ MissingField(c)) =>
            /\ pc[c] = "done"
            /\ res[c] = Result("error", MissingMessage)
            /\ launches[c] = 0
            /\ out[c] = NoPath
            /\ WrittenBy(c) = {}

\* a handler call with a source_path and an empty audio_path has ended
C6_Witness ==
    \E c \in Calls :
        /\ kind[c] = "batch" /\ pc[c] = "done"
        /\ arg[c].input = "mapping"
        /\ ~Falsy(arg[c].source_path)
        /\ arg[c].audio_path = Given(<<>>)

StorePath(path) ==
    LET p == Resolve(dirs, path) IN
    /\ Len(p) = Len(OutRoot) + 1
    /\ IsPrefix(OutRoot, p)
    /\ EndsWith(p[Len(p)], MP4)

\* C8: run_inference launches the command once; status zero returns a path
\* <Output Store>/<id>.mp4; any other status raises HTTPException(500),
\* returns no path, and /inference answers it with a 5xx.
C8_SingleLaunch ==
    \A c \in Calls :
        /\ launches[c] <= 1
        /\ (pc[c] = "returned" \/ res[c].kind \in {"FileResponse", "output_path"})
               => (exit[c] = 0 /\ launches[c] = 1 /\ StorePath(out[c]))
        /\ exit[c] = 1 =>
               /\ pc[c] \in {"raised", "done"}
               /\ pc[c] = "raised" => res[c] = Raised("HTTPException", 500)
               /\ (pc[c] = "done" /\ kind[c] = "http") => res[c].status \in 500..599
               /\ (pc[c] = "done" /\ kind[c] = "batch") => res[c].kind = "error"

\* an /inference call whose command ended with a non-zero status was answered
C8_Witness ==
    \E c \in Calls :
        /\ kind[c] = "http" /\ pc[c] = "done" /\ exit[c] = 1 /\ launches[c] = 1
        /\ res[c].status = 500

\* C9: /inference answers with the video only when the file at the returned
\* path exists.
C9_ResponseFileExists ==
    \A c \in Calls :
        res[c].kind = "FileResponse" => res[c].path \in DOMAIN fs

DistinctNames ==
    \A c, d \in Calls :
        c # d =>
            /\ temp_dir[c] # NoPath => temp_dir[c] # temp_dir[d]
            /\ out[c] # NoPath => out[c] # out[d]

OwnFilesOnly ==
    \A c \in Calls :
        \A p \in DOMAIN Workspace(c).files : fs[p].data = c

\* the uploads a call has saved so far, by its position in inference
Saved(c) ==
    CASE pc[c] = "save_image" -> {}
      [] pc[c] = "save_audio" -> {Resolve(dirs, arg[c].img_path)}
      [] OTHER -> {Resolve(dirs, arg[c].img_path), Resolve(dirs, arg[c].audio_path)}

WorkspaceIntact ==
    \A c \in Calls :
        (kind[c] = "http" /\ pc[c] \in {"save_image", "save_audio", "run", "child", "returned"})
            => (Workspace(c).exists /\ DOMAIN Workspace(c).files = Saved(c))

StoreKept ==
    /\ StoreVideo \in DOMAIN fs /\ fs[StoreVideo] = File(0, 0)
    /\ \A c \in Calls :
           wrote[c] => /\ Resolve(dirs, out[c]) \in DOMAIN fs
                       /\ fs[Resolve(dirs, out[c])] = File(0, c)
    /\ \A p \in DOMAIN fs :
           Inside(OutRoot, p) =>
               (p = StoreVideo \/ \E c \in Calls : wrote[c] /\ p = Resolve(dirs, out[c]))

\* C10: under every interleaving the calls have distinct workspaces and
\* output names, a workspace holds only its own call's files and stays whole
\* until its own call removes it, and every video of the Output Store, the
\* one there from the start and each one a command wrote, stays as written.
C10_Isolation ==
    /\ DistinctNames
    /\ OwnFilesOnly
    /\ WorkspaceIntact
    /\ StoreKept

\* one call has ended with its video while another, whose command has also
\* written its video, still holds its workspace with both uploads
C10_Witness ==
    \E c, d \in Calls :
        /\ c # d
        /\ kind[c] = "http" /\ pc[c] = "done" /\ res[c].kind = "FileResponse"
        /\ Resolve(dirs, out[c]) \in DOMAIN fs
        /\ kind[d] = "http" /\ pc[d] = "returned"
        /\ Resolve(dirs, out[d]) \in DOMAIN fs
        /\ Cardinality(DOMAIN Workspace(d).files) = 2

====
